---- MODULE Spec2Model ----
(***************************************************************************)
(* T132 Event Database: the sheet-to-events pipeline (parseSheetData,      *)
(* extractEventFromRow, convertSheetToEvents), the past/future             *)
(* classification done by every load, and the fuzzy name search            *)
(* (calculateSimilarity, searchScouts), modelled from the JavaScript       *)
(* sources.                                                                *)
(*                                                                         *)
(* JavaScript strings are TLA+ strings, read as sequences of one-character *)
(* strings (Len, Head, Tail, SubSeq, \o).  JavaScript numbers that carry a *)
(* similarity score are IEEE-754 doubles; they are modelled as the exact   *)
(* rational n/d together with r, the distance in units in the last place   *)
(* between the double the code computes and the double nearest to n/d.     *)
(***************************************************************************)
EXTENDS Integers, Sequences, FiniteSets, TLC

VARIABLES
    futureEvents,        \* part_001:12
    pastEvents,          \* part_001:13
    allScouts,           \* part_001:14
    selectedScout,       \* part_001:15
    autoRefreshInterval, \* part_001:16
    searchListener,      \* whether setupSearchListener has installed the input handlers
    searchTimeout,       \* the pending debounce timer of the search input, or Null
    clearBtn,            \* whether the clear button of the search box is displayed
    loads,               \* the loads (initializeApp, refresh ticks) awaiting loadFutureEvents()
    started,             \* number of loads started so far
    sheet,               \* the sheet as the server holds it now
    now,                 \* the clock: hours since 2025-01-01T00:00Z
    tz,                  \* the machine's time-zone offset in hours (local = UTC + tz)
    lenientDates,        \* whether the engine's Date parser rolls a day 29..31 over
    lastLoad,            \* what the last completed load computed
    str1, str2,          \* arguments of a calculateSimilarity call
    similarity,          \* its return value
    query,               \* argument of a searchScouts call
    results,             \* its return value
    sheetData,           \* argument of a convertSheetToEvents call
    allEvents,           \* its return value
    payload,             \* the JSON object loadFutureEvents received
    allAdults,           \* return value of an extractUniqueAdults call
    scoutEvents,         \* return value of a getScoutEvents call
    totalDays,           \* the total-days statistic renderScoutHistory shows
    pc                   \* position of the call under study

vars == << futureEvents, pastEvents, allScouts, selectedScout, autoRefreshInterval,
           searchListener, searchTimeout, clearBtn,
           loads, started, sheet, now, tz, lenientDates, lastLoad,
           str1, str2, similarity, query, results, sheetData, allEvents,
           payload, allAdults, scoutEvents, totalDays, pc >>

appVars == << futureEvents, pastEvents, allScouts, selectedScout, autoRefreshInterval,
              searchListener, searchTimeout, clearBtn,
              loads, started, sheet, now, tz, lenientDates, lastLoad >>
simVars == << str1, str2, similarity >>
searchVars == << query, results >>
convertVars == << sheetData, allEvents >>
ingestVars == << payload >>
historyVars == << allAdults, scoutEvents, totalDays >>

None == "none"
Null == [null |-> TRUE]

-----------------------------------------------------------------------------
(* Bounds *)

MaxStrLen == 3

-----------------------------------------------------------------------------
(* JavaScript strings *)

Ch(s, i) == SubSeq(s, i, i)

UpperChars == "ABCDEFGHIJKLMNOPQRSTUVWXYZ"
LowerChars == "abcdefghijklmnopqrstuvwxyz"

IsSpace(c) == c \in {" ", "\t", "\n"}
IsDigit(c) == c \in {"0", "1", "2", "3", "4", "5", "6", "7", "8", "9"}

UpperSet == { Ch(UpperChars, i) : i \in 1..26 }
LowerOf == [ c \in UpperSet |-> Ch(LowerChars, CHOOSE i \in 1..26 : Ch(UpperChars, i) = c) ]

LowerOfChar(c) == IF c \in UpperSet THEN LowerOf[c] ELSE c

RECURSIVE toLowerCase(_)
toLowerCase(s) ==
    IF s = "" THEN "" ELSE LowerOfChar(Head(s)) \o toLowerCase(Tail(s))

RECURSIVE trimStart(_)
trimStart(s) ==
    IF s # "" /\ IsSpace(Head(s)) THEN trimStart(Tail(s)) ELSE s

RECURSIVE trimEnd(_)
trimEnd(s) ==
    IF s # "" /\ IsSpace(Ch(s, Len(s)))
    THEN trimEnd(SubSeq(s, 1, Len(s) - 1))
    ELSE s

trim(s) == trimEnd(trimStart(s))

\* String.prototype.includes: t occurs in s as a contiguous substring.
includes(s, t) ==
    \E i \in 1..(Len(s) - Len(t) + 1) : SubSeq(s, i, i + Len(t) - 1) = t

-----------------------------------------------------------------------------
(* JavaScript numbers holding a score *)

RECURSIVE GCD(_, _)
GCD(a, b) == IF b = 0 THEN a ELSE GCD(b, a % b)

Min(a, b) == IF a < b THEN a ELSE b
Max(a, b) == IF a > b THEN a ELSE b

\* The double nearest to n/d (a literal such as 0.3, or an exactly computed value).
Num(n, d) ==
    LET g == IF n = 0 THEN d ELSE GCD(n, d)
    IN  [n |-> n \div g, d |-> d \div g, r |-> 0]

Lt(a, b) == \/ a.n * b.d < b.n * a.d
            \/ a.n * b.d = b.n * a.d /\ a.r < b.r
Gt(a, b) == Lt(b, a)
MathMax(a, b) == IF Lt(a, b) THEN b ELSE a

\* IEEE-754 rounding of 1 - (distance / maxLen): <<n, d, r>> lists, for the value
\* n/d, the distance r (in ulps) of the computed double from the nearest one;
\* every value with a denominator up to 13 that is not listed is computed exactly.
SubRounding ==
    { <<1, 10, -2>>, <<1, 11, 2>>, <<1, 12, 3>>, <<1, 13, -4>>, <<1, 3, 1>>,
      <<1, 5, -2>>, <<1, 6, -1>>, <<1, 7, 2>>, <<1, 9, 4>>, <<10, 13, -1>>,
      <<2, 11, -2>>, <<2, 3, 1>>, <<3, 10, 1>>, <<3, 13, -2>>, <<3, 7, 1>>,
      <<5, 11, 1>>, <<5, 12, -1>>, <<5, 13, -1>>, <<6, 7, 1>>, <<7, 12, -1>>,
      <<9, 11, -1>> }

\* IEEE-754 rounding of x * 0.9 for a similarity x of value n/d: as above, r is
\* the distance of the computed product from the double nearest to 0.9 * n/d.
TimesRounding ==
    { <<1, 10, -1>>, <<1, 11, 2>>, <<1, 12, 3>>, <<1, 13, -3>>, <<1, 3, 1>>,
      <<1, 5, -1>>, <<1, 6, -1>>, <<1, 7, 2>>, <<1, 9, 3>>, <<10, 11, -1>>,
      <<2, 11, -1>>, <<2, 3, 1>>, <<2, 5, 1>>, <<2, 9, -1>>, <<3, 10, 1>>,
      <<3, 13, -2>>, <<4, 5, 1>>, <<4, 9, -1>>, <<7, 12, -1>>, <<7, 9, 1>>,
      <<8, 9, -1>> }

RoundingOf(table, x) ==
    IF \E e \in table : e[1] = x.n /\ e[2] = x.d
    THEN (CHOOSE e \in table : e[1] = x.n /\ e[2] = x.d)[3]
    ELSE 0

\* 1 - (distance / maxLen), part_001:435
OneMinusRatio(distance, maxLen) ==
    LET x == Num(maxLen - distance, maxLen)
    IN  [x EXCEPT !.r = RoundingOf(SubRounding, x)]

\* x * 0.9, part_001:589 and 595
TimesPointNine(x) ==
    LET y == Num(9 * x.n, 10 * x.d)
    IN  [y EXCEPT !.r = RoundingOf(TimesRounding, x)]

-----------------------------------------------------------------------------
(* Search module: calculateSimilarity *)

Min3(a, b, c) == Min(a, Min(b, c))

\* The inner loop (part_001:423-430) for one row i: c is s1[i-1], prev holds
\* matrix[i-1][0..len2] and acc holds matrix[i][0..j-1] (sequence index =
\* column + 1), so the next column j to fill is Len(acc).
RECURSIVE matrixRow(_, _, _, _)
matrixRow(prev, c, s2, acc) ==
    IF Len(acc) > Len(s2) THEN acc
    ELSE LET j == Len(acc)
             cost == IF c = Ch(s2, j) THEN 0 ELSE 1
             cell == Min3(prev[j + 1] + 1, acc[j] + 1, prev[j] + cost)
         IN  matrixRow(prev, c, s2, Append(acc, cell))

\* The outer loop (part_001:422-431), from row i on; returns the last row.
RECURSIVE matrixRows(_, _, _, _)
matrixRows(s1, s2, i, prev) ==
    IF i > Len(s1) THEN prev
    ELSE matrixRows(s1, s2, i + 1, matrixRow(prev, Ch(s1, i), s2, <<i>>))

\* matrix[len1][len2], part_001:412-433
editDistance(s1, s2) ==
    matrixRows(s1, s2, 1, [j \in 1..(Len(s2) + 1) |-> j - 1])[Len(s2) + 1]

calculateSimilarity_Hamming(a, b) ==
    LET s1 == trim(toLowerCase(a))
        s2 == trim(toLowerCase(b))
        n == Min(Len(s1), Len(s2))
        m == Max(Len(s1), Len(s2))
        diff == Cardinality({i \in 1..n : Ch(s1, i) # Ch(s2, i)}) + (m - n)
    IN  IF a = "" \/ b = "" THEN Num(0, 1)
        ELSE IF s1 = s2 THEN Num(1, 1)
        ELSE IF includes(s1, s2) \/ includes(s2, s1) THEN Num(8, 10)
        ELSE OneMinusRatio(diff, m)

calculateSimilarity(a, b) ==
    IF a = "" \/ b = "" THEN Num(0, 1)                       \* !str1 || !str2
    ELSE LET s1 == trim(toLowerCase(a))
             s2 == trim(toLowerCase(b))
             len1 == Len(s1)
             len2 == Len(s2)
         IN  IF s1 = s2 THEN Num(1, 1)
             ELSE IF includes(s1, s2) \/ includes(s2, s1) THEN Num(8, 10)
             ELSE IF len1 = 0 THEN (IF len2 = 0 THEN Num(1, 1) ELSE Num(0, 1))
             ELSE IF len2 = 0 THEN Num(0, 1)
             ELSE OneMinusRatio(editDistance(s1, s2), Max(len1, len2))

-----------------------------------------------------------------------------
(* A calculateSimilarity call on arbitrary short strings *)

SimAlphabet == {"a", "b", "A", " "}

RECURSIVE StringsUpTo(_, _)
StringsUpTo(alphabet, n) ==
    IF n = 0 THEN {""}
    ELSE LET S == StringsUpTo(alphabet, n - 1)
         IN  S \cup {s \o c : s \in S, c \in alphabet}

AppIdle ==
    /\ futureEvents = <<>>
    /\ pastEvents = <<>>
    /\ allScouts = <<>>
    /\ selectedScout = None
    /\ autoRefreshInterval = None
    /\ searchListener = FALSE
    /\ searchTimeout = Null
    /\ clearBtn = FALSE
    /\ loads = {}
    /\ started = 0
    /\ sheet = None
    /\ now = 0
    /\ tz = 0
    /\ lenientDates = FALSE
    /\ lastLoad = None

SimIdle == str1 = "" /\ str2 = "" /\ similarity = None
SearchIdle == query = "" /\ results = None
ConvertIdle == sheetData = Null /\ allEvents = None
IngestIdle == payload = Null
HistoryIdle == allAdults = None /\ scoutEvents = Null /\ totalDays = None

InitSim ==
    /\ AppIdle /\ SearchIdle /\ ConvertIdle /\ IngestIdle /\ HistoryIdle
    /\ str1 \in StringsUpTo(SimAlphabet, MaxStrLen)
    /\ str2 \in StringsUpTo(SimAlphabet, MaxStrLen)
    /\ similarity = None
    /\ pc = "call"

CalculateSimilarity ==
    /\ pc = "call"
    /\ similarity' = calculateSimilarity(str1, str2)
    /\ pc' = "done"
    /\ UNCHANGED << appVars, str1, str2, searchVars, convertVars, ingestVars, historyVars >>

NextSim == CalculateSimilarity

SpecSim == InitSim /\ [][NextSim]_vars

-----------------------------------------------------------------------------
(* Claims about calculateSimilarity *)

\* The classic unit-cost Levenshtein distance, by its recursive definition.
RECURSIVE Lev(_, _)
Lev(a, b) ==
    IF a = "" THEN Len(b)
    ELSE IF b = "" THEN Len(a)
    ELSE IF Head(a) = Head(b) THEN Lev(Tail(a), Tail(b))
    ELSE 1 + Min3(Lev(Tail(a), b), Lev(a, Tail(b)), Lev(Tail(a), Tail(b)))

Norm(s) == trim(toLowerCase(s))

\* C9: for two strings that are non-empty after trimming, calculateSimilarity
\* returns 1 when they are equal ignoring case, 0.8 when one contains the other,
\* and otherwise 1 - lev(a,b) / max(len(a), len(b)) with lev the classic
\* Levenshtein distance of the lowercase trimmed strings; the result is in [0,1].
C9_SimilarityValue ==
    (pc = "done" /\ Norm(str1) # "" /\ Norm(str2) # "") =>
        LET a == Norm(str1)
            b == Norm(str2)
        IN  /\ similarity =
                 IF a = b THEN Num(1, 1)
                 ELSE IF includes(a, b) \/ includes(b, a) THEN Num(8, 10)
                 ELSE OneMinusRatio(Lev(a, b), Max(Len(a), Len(b)))
            /\ ~Lt(similarity, Num(0, 1))
            /\ ~Gt(similarity, Num(1, 1))

C9_Witness ==
    /\ pc = "done"
    /\ str1 = "aba" /\ str2 = "bab"
    /\ similarity = OneMinusRatio(2, 3)

\* C10: calculateSimilarity(a, a) = 1 for every string a, the empty string included.
C10_SelfSimilarityIsOne ==
    (pc = "done" /\ str1 = str2) => similarity = Num(1, 1)

-----------------------------------------------------------------------------
(* Search module: identities and searchScouts *)

\* name.split(/\s+/): cur is the token being read, acc the tokens read so far.
RECURSIVE splitWhitespace(_, _, _)
splitWhitespace(s, cur, acc) ==
    IF s = "" THEN Append(acc, cur)
    ELSE IF IsSpace(Head(s)) THEN splitWhitespace(trimStart(s), "", Append(acc, cur))
    ELSE splitWhitespace(Tail(s), cur \o Head(s), acc)

\* parts.join(' ')
RECURSIVE joinSpace(_)
joinSpace(parts) ==
    IF parts = <<>> THEN ""
    ELSE IF Len(parts) = 1 THEN parts[1]
    ELSE parts[1] \o " " \o joinSpace(Tail(parts))

\* The record extractUniqueScouts stores for a trimmed name (part_001:460-466).
identityOf(name) ==
    LET parts == splitWhitespace(name, "", <<>>)
    IN  [ fullName   |-> name,
          firstName  |-> parts[1],
          lastName   |-> joinSpace(Tail(parts)),
          normalized |-> toLowerCase(name) ]

\* The score searchScouts gives one scout (part_001:578-603).
scoreOf_FullNameOnly(scout, searchTerm) ==
    LET fullNameScore == calculateSimilarity(scout.fullName, searchTerm)
    IN  IF Gt(fullNameScore, Num(3, 10)) THEN fullNameScore ELSE Num(0, 1)

scoreOf(scout, searchTerm) ==
    LET fullNameScore == calculateSimilarity(scout.fullName, searchTerm)
        firstNameScore == calculateSimilarity(scout.firstName, searchTerm)
        lastNameScore == calculateSimilarity(scout.lastName, searchTerm)
        score0 == Num(0, 1)
        score1 == IF Gt(fullNameScore, Num(3, 10))
                  THEN MathMax(score0, fullNameScore) ELSE score0
        score2 == IF Gt(firstNameScore, Num(3, 10))
                  THEN MathMax(score1, TimesPointNine(firstNameScore)) ELSE score1
        score3 == IF Gt(lastNameScore, Num(3, 10))
                  THEN MathMax(score2, TimesPointNine(lastNameScore)) ELSE score2
    IN  IF \/ includes(toLowerCase(scout.fullName), searchTerm)
           \/ includes(toLowerCase(scout.firstName), searchTerm)
           \/ includes(toLowerCase(scout.lastName), searchTerm)
        THEN MathMax(score3, Num(7, 10))
        ELSE score3

\* results.push({scout, score}) for every scout with score > 0.3 (part_001:577-611)
RECURSIVE scoredMatches(_, _)
scoredMatches(scouts, searchTerm) ==
    IF scouts = <<>> THEN <<>>
    ELSE LET score == scoreOf(Head(scouts), searchTerm)
             rest == scoredMatches(Tail(scouts), searchTerm)
         IN  IF Gt(score, Num(3, 10))
             THEN <<[scout |-> Head(scouts), score |-> score]>> \o rest
             ELSE rest

\* Array.prototype.sort with the comparator (a, b) => b.score - a.score
\* (part_001:614).  ECMAScript requires the sort to be stable: an element stays
\* behind every earlier element the comparator does not put after it.
RECURSIVE insertByScore(_, _)
insertByScore(sorted, x) ==
    IF sorted = <<>> THEN <<x>>
    ELSE IF Lt(Head(sorted).score, x.score) THEN <<x>> \o sorted
    ELSE <<Head(sorted)>> \o insertByScore(Tail(sorted), x)

RECURSIVE sortFrom(_, _)
sortFrom(rs, sorted) ==
    IF rs = <<>> THEN sorted ELSE sortFrom(Tail(rs), insertByScore(sorted, Head(rs)))

RECURSIVE insertBeforeTies(_, _)
insertBeforeTies(sorted, x) ==
    IF sorted = <<>> THEN <<x>>
    ELSE IF ~Lt(x.score, Head(sorted).score) THEN <<x>> \o sorted
    ELSE <<Head(sorted)>> \o insertBeforeTies(Tail(sorted), x)

RECURSIVE sortFromUnstable(_, _)
sortFromUnstable(rs, sorted) ==
    IF rs = <<>> THEN sorted
    ELSE sortFromUnstable(Tail(rs), insertBeforeTies(sorted, Head(rs)))

RECURSIVE insertAscending(_, _)
insertAscending(sorted, x) ==
    IF sorted = <<>> THEN <<x>>
    ELSE IF Lt(x.score, Head(sorted).score) THEN <<x>> \o sorted
    ELSE <<Head(sorted)>> \o insertAscending(Tail(sorted), x)

RECURSIVE sortFromAscending(_, _)
sortFromAscending(rs, sorted) ==
    IF rs = <<>> THEN sorted
    ELSE sortFromAscending(Tail(rs), insertAscending(sorted, Head(rs)))

sortByScore_Unstable(rs) == sortFromUnstable(rs, <<>>)
sortByScore_Ascending(rs) == sortFromAscending(rs, <<>>)

sortByScore(rs) == sortFrom(rs, <<>>)

searchScouts(q, scouts) ==
    IF q = "" \/ trim(q) = "" THEN <<>>
    ELSE IF scouts = <<>> THEN <<>>
    ELSE LET searchTerm == toLowerCase(trim(q))
             sorted == sortByScore(scoredMatches(scouts, searchTerm))
         IN  [i \in 1..Len(sorted) |-> sorted[i].scout]

-----------------------------------------------------------------------------
(* A searchScouts call on a corpus of identities *)

MaxCorpus == 3

SearchNames ==
    { "Jon Smith", "John Smyth", "Jo Li", "Abc De", "De Abc", "Ann" }

SearchQueries ==
    { "jon sith", "jo", "axy", " Ann ", "smyth", "", "  ", "zzzzzzzz" }

\* The sequences without repetition of at most n elements of S.
Range(seq) == { seq[i] : i \in 1..Len(seq) }

RECURSIVE DistinctSeqs(_, _)
DistinctSeqs(S, n) ==
    IF n = 0 THEN {<<>>}
    ELSE LET shorter == DistinctSeqs(S, n - 1)
             longest == { t \in shorter : Len(t) = n - 1 }
         IN  shorter \cup UNION { { Append(t, x) : x \in S \ Range(t) } : t \in longest }

InitSearch ==
    /\ futureEvents = <<>>
    /\ pastEvents = <<>>
    /\ selectedScout = None
    /\ autoRefreshInterval = None
    /\ searchListener = FALSE
    /\ searchTimeout = Null
    /\ clearBtn = FALSE
    /\ loads = {}
    /\ started = 0
    /\ sheet = None
    /\ now = 0
    /\ tz = 0
    /\ lenientDates = FALSE
    /\ lastLoad = None
    /\ SimIdle /\ ConvertIdle /\ IngestIdle /\ HistoryIdle
    /\ \E names \in DistinctSeqs(SearchNames, MaxCorpus) :
           allScouts = [i \in 1..Len(names) |-> identityOf(names[i])]
    /\ query \in SearchQueries
    /\ results = None
    /\ pc = "call"

SearchScouts ==
    /\ pc = "call"
    /\ results' = searchScouts(query, allScouts)
    /\ pc' = "done"
    /\ UNCHANGED << appVars, simVars, query, convertVars, ingestVars, historyVars >>

NextSearch == SearchScouts

SpecSearch == InitSearch /\ [][NextSearch]_vars

-----------------------------------------------------------------------------
(* Claims about searchScouts *)

\* The position of an identity in a sequence of identities (0 when absent).
PositionIn(seq, x) ==
    IF \E i \in 1..Len(seq) : seq[i] = x
    THEN CHOOSE i \in 1..Len(seq) : seq[i] = x
    ELSE 0

SearchTerm == toLowerCase(trim(query))

SameScore(a, b) == ~Lt(a, b) /\ ~Lt(b, a)

\* C6: two identities of the result with equal computed score are in the same
\* relative order as in the input corpus.
C6_TiesKeepCorpusOrder ==
    pc = "done" =>
        \A i, j \in 1..Len(results) :
            (i < j /\ SameScore(scoreOf(results[i], SearchTerm),
                                scoreOf(results[j], SearchTerm)))
                => PositionIn(allScouts, results[i]) < PositionIn(allScouts, results[j])

\* Two tied identities come out behind a better one that follows them in the corpus.
C6_Witness ==
    /\ pc = "done"
    /\ query = "jo"
    /\ allScouts = << identityOf("Jon Smith"), identityOf("John Smyth"), identityOf("Jo Li") >>
    /\ results = << identityOf("Jo Li"), identityOf("Jon Smith"), identityOf("John Smyth") >>

\* C7: the result is ordered by non-increasing score, and for the query
\* "jon sith" both "Jon Smith" and "John Smyth" are returned, "Jon Smith" first.
C7_NonIncreasingScore ==
    pc = "done" =>
        /\ \A i, j \in 1..Len(results) :
               i < j => ~Lt(scoreOf(results[i], SearchTerm), scoreOf(results[j], SearchTerm))
        /\ ( /\ query = "jon sith"
             /\ PositionIn(allScouts, identityOf("Jon Smith")) > 0
             /\ PositionIn(allScouts, identityOf("John Smyth")) > 0 )
           => /\ PositionIn(results, identityOf("Jon Smith")) > 0
              /\ PositionIn(results, identityOf("Jon Smith"))
                     < PositionIn(results, identityOf("John Smyth"))

C7_Witness ==
    /\ pc = "done"
    /\ query = "jon sith"
    /\ allScouts = << identityOf("John Smyth"), identityOf("Jon Smith") >>
    /\ results = << identityOf("Jon Smith"), identityOf("John Smyth") >>

\* The largest of a non-empty finite set of scores.
Largest(S) == CHOOSE x \in S : \A y \in S : ~Lt(x, y)

\* The final score as the claim words it: the maximum of the contributions.
FinalScore(scout, term) ==
    LET full == calculateSimilarity(scout.fullName, term)
        first == calculateSimilarity(scout.firstName, term)
        last == calculateSimilarity(scout.lastName, term)
    IN  Largest( {Num(0, 1)}
                 \cup (IF Gt(full, Num(3, 10)) THEN {full} ELSE {})
                 \cup (IF Gt(first, Num(3, 10)) THEN {TimesPointNine(first)} ELSE {})
                 \cup (IF Gt(last, Num(3, 10)) THEN {TimesPointNine(last)} ELSE {})
                 \cup (IF \E part \in {scout.fullName, scout.firstName, scout.lastName} :
                             includes(toLowerCase(part), term)
                       THEN {Num(7, 10)} ELSE {}) )

\* C8: for a non-blank query, an identity is returned if and only if its final
\* score (the maximum of the full-name similarity, 0.9 times the first-name and
\* last-name similarities, each counted only above 0.3, and 0.7 when the query
\* is a substring of a name) exceeds 0.3; every identity whose name contains the
\* query is returned.
C8_ReturnedIffScoreAboveThreshold ==
    (pc = "done" /\ trim(query) # "") =>
        /\ \A i \in 1..Len(allScouts) :
               PositionIn(results, allScouts[i]) > 0
                   <=> Gt(FinalScore(allScouts[i], SearchTerm), Num(3, 10))
        /\ \A i \in 1..Len(results) : PositionIn(allScouts, results[i]) > 0
        /\ \A i \in 1..Len(allScouts) :
               includes(toLowerCase(allScouts[i].fullName), SearchTerm)
                   => PositionIn(results, allScouts[i]) > 0

\* "Abc De" is returned for "axy" on its first name alone, "Jon Smith" is not.
C8_Witness ==
    /\ pc = "done"
    /\ query = "axy"
    /\ allScouts = << identityOf("Jon Smith"), identityOf("Abc De") >>
    /\ results = << identityOf("Abc De") >>

-----------------------------------------------------------------------------
(* Google Sheet module: extractEventFromRow *)

\* The value of an absent property or of find() without a match.
Undefined == "<undefined>"

\* a || b
OrElse(a, b) == IF a = Undefined \/ a = "" THEN b ELSE a

\* columns.find(P): the first element that satisfies P; test[i] is P(columns[i]).
find(columns, test) ==
    LET hits == { i \in 1..Len(columns) : test[i] }
    IN  IF hits = {} THEN Undefined
        ELSE columns[CHOOSE i \in hits : \A k \in hits : i <= k]

\* columns[index], zero-based
at(columns, index) ==
    IF index + 1 \in 1..Len(columns) THEN columns[index + 1] ELSE Undefined

\* row[column]
get(row, column) == IF column \in DOMAIN row THEN row[column] ELSE Undefined

\* The character at position i (one-based), "" beyond the end.
CharAt(s, i) == IF i \in 1..Len(s) THEN Ch(s, i) ELSE ""

\* How many of the characters at i, i+1, ..., at most max of them, are digits.
RECURSIVE digitsAt(_, _, _)
digitsAt(s, i, max) ==
    IF max > 0 /\ IsDigit(CharAt(s, i)) THEN 1 + digitsAt(s, i + 1, max - 1) ELSE 0

\* \s* from position i: the first position at or after i that holds no space.
RECURSIVE skipSpaces(_, _)
skipSpaces(s, i) == IF IsSpace(CharAt(s, i)) THEN skipSpaces(s, i + 1) ELSE i

NoMatch == [matched |-> FALSE]

\* /(\d{4})\s*-\s*(\d{1,2})\/(\d{1,2})/ tried at position i (part_000:184);
\* end is the position after the match.
dateMatchAt(s, i) ==
    IF digitsAt(s, i, 4) < 4 THEN NoMatch
    ELSE LET dash == skipSpaces(s, i + 4)
             m == skipSpaces(s, dash + 1)
             mlen == digitsAt(s, m, 2)
             d == m + mlen + 1
             dlen == digitsAt(s, d, 2)
         IN  IF CharAt(s, dash) # "-" \/ mlen = 0 \/ CharAt(s, m + mlen) # "/" \/ dlen = 0
             THEN NoMatch
             ELSE [ matched |-> TRUE,
                    year    |-> SubSeq(s, i, i + 3),
                    month   |-> SubSeq(s, m, m + mlen - 1),
                    day     |-> SubSeq(s, d, d + dlen - 1),
                    end     |-> d + dlen ]

\* eventName.match(...): the leftmost match, looked for from position i on.
RECURSIVE dateMatchFrom(_, _)
dateMatchFrom(s, i) ==
    IF i > Len(s) THEN NoMatch
    ELSE IF IsDigit(Ch(s, i)) /\ dateMatchAt(s, i).matched THEN dateMatchAt(s, i)
    ELSE dateMatchFrom(s, i + 1)

dateMatchOf(s) == dateMatchFrom(s, 1)

padStart2_Unpadded(s) == s

padStart2(s) == IF Len(s) < 2 THEN "0" \o s ELSE s

\* eventName.replace(/^\d{4}\s*-\s*\d{1,2}\/\d{1,2}\s*-\s*/, '') (part_000:197)
removeDatePrefix(s) ==
    LET head == dateMatchAt(s, 1)
        dash == skipSpaces(s, head.end)
        rest == skipSpaces(s, dash + 1)
    IN  IF head.matched /\ CharAt(s, dash) = "-"
        THEN SubSeq(s, rest, Len(s))
        ELSE s

\* part_000:200-210
categoryOf(eventName) ==
    LET lower == toLowerCase(eventName)
    IN  IF includes(lower, "eagle project") THEN "Eagle Project"
        ELSE IF includes(lower, "service project") THEN "Service Project"
        ELSE IF includes(lower, "fundraiser") THEN "Fundraiser"
        ELSE IF includes(lower, "camp") THEN "Camping"
        ELSE "Other"

extractEventFromRow(row, columns) ==
    LET eventCol ==
            OrElse(find(columns, [i \in DOMAIN columns |->
                       /\ includes(toLowerCase(columns[i]), "event")
                       /\ includes(toLowerCase(columns[i]), "signup")]),
            OrElse(find(columns, [i \in DOMAIN columns |->
                       \/ includes(toLowerCase(columns[i]), "event")
                       \/ includes(toLowerCase(columns[i]), "activity")]),
            OrElse(at(columns, 1), "Event")))
        firstNameCol ==
            OrElse(find(columns, [i \in DOMAIN columns |->
                       /\ includes(toLowerCase(columns[i]), "first")
                       /\ includes(toLowerCase(columns[i]), "name")]),
            OrElse(at(columns, 2), "First Name"))
        lastNameCol ==
            OrElse(find(columns, [i \in DOMAIN columns |->
                       /\ includes(toLowerCase(columns[i]), "last")
                       /\ includes(toLowerCase(columns[i]), "name")]),
            OrElse(at(columns, 3), "Last Name"))
        patrolCol ==
            OrElse(find(columns, [i \in DOMAIN columns |->
                       \/ includes(toLowerCase(columns[i]), "patrol")
                       \/ includes(toLowerCase(columns[i]), "leader")]),
            OrElse(at(columns, 6), "Patrol Leader - Patrol?"))
        eventNameFull == OrElse(get(row, eventCol), "")
        firstName == OrElse(get(row, firstNameCol), "")
        lastName == OrElse(get(row, lastNameCol), "")
        patrolValue == OrElse(get(row, patrolCol), "")
        scoutName == trim(firstName \o " " \o lastName)
        isAdult == patrolValue # "" /\ includes(toLowerCase(patrolValue), "adult")
        trimmed == trim(eventNameFull)
        dateMatch == dateMatchOf(trimmed)
        startDate ==
            IF dateMatch.matched
            THEN dateMatch.year \o "-" \o padStart2(dateMatch.month)
                                \o "-" \o padStart2(dateMatch.day)
            ELSE ""
        eventName == trim(removeDatePrefix(trimmed))
    IN  [ scoutName |-> scoutName,
          eventName |-> eventName,
          startDate |-> startDate,
          endDate   |-> startDate,
          category  |-> categoryOf(eventName),
          isAdult   |-> isAdult,
          rawRow    |-> row ]

-----------------------------------------------------------------------------
(* Main script: convertSheetToEvents *)

\* Array.prototype.includes on an array of strings: strict equality.
arrayIncludes(array, x) == \E i \in 1..Len(array) : array[i] = x

\* part_001:111
eventKeyOf_NameOnly(eventInfo) == toLowerCase(eventInfo.eventName)

eventKeyOf(eventInfo) ==
    toLowerCase(eventInfo.eventName \o "_" \o eventInfo.startDate \o "_" \o eventInfo.endDate)

\* eventsMap is the Map of part_001:102 in insertion order: a sequence of
\* [key, value] entries with pairwise different keys.
mapHas(eventsMap, key) == \E i \in 1..Len(eventsMap) : eventsMap[i].key = key
mapIndex(eventsMap, key) == CHOOSE i \in 1..Len(eventsMap) : eventsMap[i].key = key

addSignup_KeepUndated(eventsMap, eventInfo) ==
    IF eventInfo.eventName # "" /\ eventInfo.scoutName # ""
                                /\ ~mapHas(eventsMap, eventKeyOf(eventInfo))
    THEN Append(eventsMap,
           [ key   |-> eventKeyOf(eventInfo),
             value |-> [ eventName |-> eventInfo.eventName,
                         startDate |-> eventInfo.startDate,
                         endDate   |-> eventInfo.endDate,
                         category  |-> eventInfo.category,
                         scouts    |-> IF eventInfo.isAdult THEN <<>>
                                       ELSE <<eventInfo.scoutName>>,
                         adults    |-> IF eventInfo.isAdult THEN <<eventInfo.scoutName>>
                                       ELSE <<>> ] ])
    ELSE eventsMap

\* The body of the forEach callback, part_001:106-143.
addSignup(eventsMap, eventInfo) ==
    IF eventInfo.eventName # "" /\ eventInfo.startDate # "" /\ eventInfo.scoutName # ""
    THEN LET eventKey == eventKeyOf(eventInfo)
             created ==
                 IF ~mapHas(eventsMap, eventKey)
                 THEN Append(eventsMap,
                        [ key   |-> eventKey,
                          value |-> [ eventName |-> eventInfo.eventName,
                                      startDate |-> eventInfo.startDate,
                                      endDate   |-> OrElse(eventInfo.endDate, eventInfo.startDate),
                                      category  |-> eventInfo.category,
                                      scouts    |-> <<>>,
                                      adults    |-> <<>> ] ])
                 ELSE eventsMap
             i == mapIndex(created, eventKey)
             event == created[i].value
             personName == trim(eventInfo.scoutName)
         IN  IF personName = "" THEN created
             ELSE IF eventInfo.isAdult
             THEN IF ~arrayIncludes(event.adults, personName)
                  THEN [created EXCEPT ![i].value.adults = Append(@, personName)]
                  ELSE created
             ELSE IF ~arrayIncludes(event.scouts, personName)
                  THEN [created EXCEPT ![i].value.scouts = Append(@, personName)]
                  ELSE created
    ELSE eventsMap

RECURSIVE foldRows(_, _, _)
foldRows(rows, columns, eventsMap) ==
    IF rows = <<>> THEN eventsMap
    ELSE foldRows(Tail(rows), columns,
                  addSignup(eventsMap, extractEventFromRow(Head(rows), columns)))

rowsAfterConvert_Emptied(data) ==
    IF "rows" \in DOMAIN data THEN [data EXCEPT !.rows = <<>>] ELSE data

\* The argument after the call: convertSheetToEvents and extractEventFromRow
\* only read sheetData and its rows.
rowsAfterConvert(data) == data

\* sheetData is a record; Null is the record without fields.
convertSheetToEvents(data) ==
    IF "rows" \notin DOMAIN data THEN <<>>                  \* !sheetData || !Array.isArray(sheetData.rows)
    ELSE LET eventsMap == foldRows(data.rows, data.columns, <<>>)
         IN  [i \in 1..Len(eventsMap) |-> eventsMap[i].value]

-----------------------------------------------------------------------------
(* A convertSheetToEvents call on a sheet of signup rows *)

MaxRows == 2

SheetColumns ==
    << "Timestamp", "Which event did you signup for?", "First Name", "Last Name",
       "Patrol Leader - Patrol?" >>

SignupRow(event, first, last, patrol) ==
    [ c \in Range(SheetColumns) |->
        CASE c = "Timestamp" -> "1"
          [] c = "Which event did you signup for?" -> event
          [] c = "First Name" -> first
          [] c = "Last Name" -> last
          [] OTHER -> patrol ]

EventTexts == { "2025 - 11/29 - Camp", "2025-11/29-camp", "2025 - 12/1 - Camp", "Camp" }
PersonNames == { <<"Jane", "Doe">>, <<"jane", "doe ">> }
PatrolValues == { "Fox", "Adult" }

SignupRows ==
    { SignupRow(e, p[1], p[2], v) : e \in EventTexts, p \in PersonNames, v \in PatrolValues }
    \cup { SignupRow("2025 - 11/29 - Camp", "", "", "Fox"),
           SignupRow("2025 - 12/1 - Camp", " ", "", "Adult"),
           SignupRow("2025 - 11/29 - ", "Jane", "Doe", "Fox") }

RECURSIVE SeqsUpTo(_, _)
SeqsUpTo(S, n) ==
    IF n = 0 THEN {<<>>}
    ELSE LET shorter == SeqsUpTo(S, n - 1)
         IN  shorter \cup { Append(t, x) : t \in { u \in shorter : Len(u) = n - 1 }, x \in S }

\* Event texts with the year - month/day pattern in many spellings, and with
\* near misses of it.
DateTexts ==
    { prefix \o year \o dash \o month \o "/" \o day \o suffix :
          prefix \in {"", "Trip "}, year \in {"2025", "025"}, dash \in {" - ", "-", " "},
          month \in {"1", "11", "13"}, day \in {"9", "29", "045"},
          suffix \in {" - Camp", ""} }

InitConvert ==
    /\ AppIdle /\ SimIdle /\ SearchIdle /\ IngestIdle /\ HistoryIdle
    /\ \/ \E rows \in SeqsUpTo(SignupRows, MaxRows) :
              sheetData = [columns |-> SheetColumns, rows |-> rows]
       \/ \E text \in DateTexts :
              sheetData = [columns |-> SheetColumns,
                           rows |-> <<SignupRow(text, "Jane", "Doe", "Fox")>>]
    /\ allEvents = None
    /\ pc = "call"

ConvertSheetToEvents ==
    /\ pc = "call"
    /\ allEvents' = convertSheetToEvents(sheetData)
    /\ sheetData' = rowsAfterConvert(sheetData)
    /\ pc' = "done"
    /\ UNCHANGED << appVars, simVars, searchVars, ingestVars, historyVars >>

NextConvert == ConvertSheetToEvents

SpecConvert == InitConvert /\ [][NextConvert]_vars

-----------------------------------------------------------------------------
(* Claims about convertSheetToEvents *)

\* C1: no scouts list and no adults list of an EventRecord holds two entries
\* whose lowercase, trimmed forms are equal.
C1_NoCaseInsensitiveDuplicates ==
    pc = "done" =>
        \A e \in 1..Len(allEvents) :
            /\ \A i, j \in 1..Len(allEvents[e].scouts) :
                   Norm(allEvents[e].scouts[i]) = Norm(allEvents[e].scouts[j]) => i = j
            /\ \A i, j \in 1..Len(allEvents[e].adults) :
                   Norm(allEvents[e].adults[i]) = Norm(allEvents[e].adults[j]) => i = j

\* The signups of the rows, and whether the aggregator takes a signup.
RECURSIVE signupsOf(_, _)
signupsOf(rows, columns) ==
    IF rows = <<>> THEN <<>>
    ELSE <<extractEventFromRow(Head(rows), columns)>> \o signupsOf(Tail(rows), columns)

IsValidSignup(info) == info.eventName # "" /\ info.startDate # "" /\ info.scoutName # ""

\* The grouping the claim words: cleaned name ignoring case, start and end date.
GroupOf(info) == << toLowerCase(info.eventName), info.startDate, info.endDate >>
GroupOfEvent(event) == << toLowerCase(event.eventName), event.startDate, event.endDate >>

\* The EventRecords that hold the person of a signup in the list its role selects.
RecordsHolding(info) ==
    { e \in 1..Len(allEvents) :
        /\ GroupOfEvent(allEvents[e]) = GroupOf(info)
        /\ arrayIncludes(IF info.isAdult THEN allEvents[e].adults ELSE allEvents[e].scouts,
                         info.scoutName) }

\* C2: there is exactly one EventRecord per distinct group (cleaned name
\* ignoring case, start date, end date) of the valid rows; two valid rows are in
\* the same record exactly when their groups are equal; the record keeps the
\* name, dates and category of the first row of its group.
C2_OneRecordPerKey ==
    pc = "done" =>
        LET signups == signupsOf(sheetData.rows, sheetData.columns)
            valid == { i \in 1..Len(signups) : IsValidSignup(signups[i]) }
        IN  /\ Len(allEvents) = Cardinality({ GroupOf(signups[i]) : i \in valid })
            /\ \A e, f \in 1..Len(allEvents) :
                   GroupOfEvent(allEvents[e]) = GroupOfEvent(allEvents[f]) => e = f
            /\ \A i \in valid : Cardinality(RecordsHolding(signups[i])) = 1
            /\ \A i, j \in valid :
                   RecordsHolding(signups[i]) = RecordsHolding(signups[j])
                       <=> GroupOf(signups[i]) = GroupOf(signups[j])
            /\ \A e \in 1..Len(allEvents) :
                   \E i \in valid :
                       /\ GroupOf(signups[i]) = GroupOfEvent(allEvents[e])
                       /\ \A k \in valid :
                              GroupOf(signups[k]) = GroupOfEvent(allEvents[e]) => i <= k
                       /\ allEvents[e].eventName = signups[i].eventName
                       /\ allEvents[e].startDate = signups[i].startDate
                       /\ allEvents[e].endDate = signups[i].endDate
                       /\ allEvents[e].category = signups[i].category

\* Two rows that differ only in the case of the event name share one record,
\* named as the first row names it.
C2_Witness ==
    /\ pc = "done"
    /\ Len(sheetData.rows) = 2
    /\ sheetData.rows[1]["Which event did you signup for?"] = "2025 - 11/29 - Camp"
    /\ sheetData.rows[2]["Which event did you signup for?"] = "2025-11/29-camp"
    /\ sheetData.rows[1]["First Name"] = "Jane"
    /\ sheetData.rows[2]["First Name"] = "jane"
    /\ Len(allEvents) = 1
    /\ allEvents[1].eventName = "Camp"
    /\ allEvents[1].startDate = "2025-11-29"
    /\ Len(allEvents[1].scouts) + Len(allEvents[1].adults) = 2

-----------------------------------------------------------------------------
(* Google Sheet module: parseSheetData *)

Digits == "0123456789"

\* String(n) for a natural number n
RECURSIVE numberToString(_)
numberToString(n) ==
    IF n < 10 THEN Ch(Digits, n + 1)
    ELSE numberToString(n \div 10) \o Ch(Digits, (n % 10) + 1)

\* Values of the JSON payload: an array is [array |-> <<...>>], an object a
\* record of its properties, null is Null, and a string property holds the
\* string.  A property that is absent is outside the record's DOMAIN.
Array(items) == [array |-> items]

\* Array.isArray(object[property]), false too when the property is absent
isArrayProperty(object, property) ==
    property \in DOMAIN object /\ "array" \in DOMAIN object[property]

\* (col && col.label) ? col.label : ''
labelOf(col) == IF "label" \in DOMAIN col /\ col.label # "" THEN col.label ELSE ""

\* array.filter(x => x !== '')
RECURSIVE filterNonEmpty(_)
filterNonEmpty(array) ==
    IF array = <<>> THEN <<>>
    ELSE IF Head(array) # "" THEN <<Head(array)>> \o filterNonEmpty(Tail(array))
    ELSE filterNonEmpty(Tail(array))

\* rowData[columnName] = value
setProperty(object, name, value) ==
    [ k \in DOMAIN object \cup {name} |-> IF k = name THEN value ELSE object[k] ]

EmptyObject == [ k \in {} |-> "" ]

\* The callback of row.c.forEach (part_000:106-112), from cell index + 1 on.
RECURSIVE mapCells(_, _, _, _)
mapCells(cells, index, columns, rowData) ==
    IF index >= Len(cells) THEN rowData
    ELSE LET cell == cells[index + 1]
             columnName == IF OrElse(at(columns, index), "") # ""
                           THEN at(columns, index)
                           ELSE "Column" \o numberToString(index + 1)
             value == IF "v" \in DOMAIN cell THEN cell.v ELSE ""
         IN  mapCells(cells, index + 1, columns, setProperty(rowData, columnName, value))

\* The callback of table.rows.forEach (part_000:101-119).
RECURSIVE mapRows(_, _)
mapRows(rawRows, columns) ==
    IF rawRows = <<>> THEN <<>>
    ELSE LET row == Head(rawRows)
             rest == mapRows(Tail(rawRows), columns)
         IN  IF isArrayProperty(row, "c")
             THEN LET rowData == mapCells(row.c.array, 0, columns, EmptyObject)
                  IN  IF \E k \in DOMAIN rowData : rowData[k] # "" /\ trim(rowData[k]) # ""
                      THEN <<rowData>> \o rest
                      ELSE rest
             ELSE rest

parseSheetData(table) ==
    LET columns == IF isArrayProperty(table, "cols")
                   THEN filterNonEmpty([i \in 1..Len(table.cols.array) |->
                                           labelOf(table.cols.array[i])])
                   ELSE <<>>
        rows == IF isArrayProperty(table, "rows")
                THEN mapRows(table.rows.array, columns)
                ELSE <<>>
    IN  [columns |-> columns, rows |-> rows]

-----------------------------------------------------------------------------
(* Dates: new Date(string), setHours(0, 0, 0, 0), comparison *)

\* A Date is [nan |-> TRUE] (Invalid Date) or [nan |-> FALSE, time |-> t] with
\* t in hours since 2025-01-01T00:00Z.
InvalidDate == [nan |-> TRUE]
DateAt(t) == [nan |-> FALSE, time |-> t]

\* a < b on Dates: false when either is Invalid Date (NaN).
DateLt(a, b) == ~a.nan /\ ~b.nan /\ a.time < b.time

RECURSIVE digitsToNumber(_)
digitsToNumber(s) ==
    IF s = "" THEN 0
    ELSE 10 * digitsToNumber(SubSeq(s, 1, Len(s) - 1))
         + (CHOOSE d \in 0..9 : Ch(Digits, d + 1) = Ch(s, Len(s)))

IsLeapYear(y) == (y % 4 = 0 /\ y % 100 # 0) \/ y % 400 = 0

DaysInMonth(y, m) ==
    IF m = 2 THEN (IF IsLeapYear(y) THEN 29 ELSE 28)
    ELSE IF m \in {4, 6, 9, 11} THEN 30 ELSE 31

\* Leap days in the years before y.
LeapsBefore(y) == ((y - 1) \div 4) - ((y - 1) \div 100) + ((y - 1) \div 400)

RECURSIVE DaysBeforeMonth(_, _)
DaysBeforeMonth(y, m) ==
    IF m = 1 THEN 0 ELSE DaysBeforeMonth(y, m - 1) + DaysInMonth(y, m - 1)

\* Days from 2025-01-01 to the given civil date; a day beyond the end of the
\* month counts on into the next one.
DayNumber(y, m, d) ==
    365 * (y - 2025) + (LeapsBefore(y) - LeapsBefore(2025)) + DaysBeforeMonth(y, m) + (d - 1)

\* new Date("YYYY-MM-DD"): midnight UTC of that day; Invalid Date when the
\* string is empty or the month or day is out of range.  For a day within
\* 1..31 that the month does not have, engines differ: lenient ones roll it
\* over into the next month, strict ones give Invalid Date.
newDate(s, lenient) ==
    IF Len(s) # 10 THEN InvalidDate
    ELSE LET y == digitsToNumber(SubSeq(s, 1, 4))
             m == digitsToNumber(SubSeq(s, 6, 7))
             d == digitsToNumber(SubSeq(s, 9, 10))
         IN  IF m \notin 1..12 \/ d \notin 1..31 THEN InvalidDate
             ELSE IF d > DaysInMonth(y, m) /\ ~lenient THEN InvalidDate
             ELSE DateAt(24 * DayNumber(y, m, d))

\* date.setHours(0, 0, 0, 0): midnight local time of the date's local day, for
\* a machine whose local time is UTC + zone hours.
setHoursZero(date, zone) ==
    IF date.nan THEN date
    ELSE DateAt(((date.time + zone) \div 24) * 24 - zone)

-----------------------------------------------------------------------------
(* History manager module: isEventPast *)

isEventPast(endDate, clock, zone, lenient) ==
    IF endDate = "" THEN FALSE
    ELSE DateLt(newDate(endDate, lenient), setHoursZero(DateAt(clock), zone))

-----------------------------------------------------------------------------
(* Search module: extractUniqueScouts *)

addScout_CaseSensitive(scoutMap, scoutName) ==
    LET name == trim(scoutName)
    IN  IF name # "" /\ \A i \in 1..Len(scoutMap) : scoutMap[i].fullName # name
        THEN Append(scoutMap, identityOf(name))
        ELSE scoutMap

\* The callback of event.scouts.forEach (part_001:454-469); scoutMap is the
\* Map in insertion order, a sequence of identities with different keys.
addScout(scoutMap, scoutName) ==
    LET name == trim(scoutName)
        normalized == toLowerCase(name)
    IN  IF name # "" /\ \A i \in 1..Len(scoutMap) : scoutMap[i].normalized # normalized
        THEN Append(scoutMap, identityOf(name))
        ELSE scoutMap

RECURSIVE addScouts(_, _)
addScouts(scoutMap, names) ==
    IF names = <<>> THEN scoutMap
    ELSE addScouts(addScout(scoutMap, Head(names)), Tail(names))

RECURSIVE addScoutsOfEvents(_, _)
addScoutsOfEvents(scoutMap, events) ==
    IF events = <<>> THEN scoutMap
    ELSE addScoutsOfEvents(addScouts(scoutMap, Head(events).scouts), Tail(events))

extractUniqueScouts(future, past) ==
    addScoutsOfEvents(addScoutsOfEvents(<<>>, future), past)

(* Search module: extractUniqueAdults, the same walk over the adults lists *)

RECURSIVE addAdultsOfEvents(_, _)
addAdultsOfEvents(adultMap, events) ==
    IF events = <<>> THEN adultMap
    ELSE addAdultsOfEvents(addScouts(adultMap, Head(events).adults), Tail(events))

extractUniqueAdults(future, past) ==
    addAdultsOfEvents(addAdultsOfEvents(<<>>, future), past)

-----------------------------------------------------------------------------
(* Main script: a load (initializeApp, or a tick of the refresh timer) *)

\* The callback of allEvents.forEach (part_001:44-53 and 326-335): lists is
\* [future, past], today the reference date with its time of day zeroed.
pushEvent_DropInvalid(lists, event, today, zone, lenient) ==
    LET eventDate ==
            setHoursZero(newDate(OrElse(event.endDate, event.startDate), lenient), zone)
    IN  IF DateLt(eventDate, today)
        THEN [lists EXCEPT !.past = Append(@, event)]
        ELSE IF ~eventDate.nan
        THEN [lists EXCEPT !.future = Append(@, event)]
        ELSE lists

pushEvent_InvalidIsPast(lists, event, today, zone, lenient) ==
    LET eventDate ==
            setHoursZero(newDate(OrElse(event.endDate, event.startDate), lenient), zone)
    IN  IF ~eventDate.nan /\ ~DateLt(eventDate, today)
        THEN [lists EXCEPT !.future = Append(@, event)]
        ELSE [lists EXCEPT !.past = Append(@, event)]

pushEvent_PastAlsoFuture(lists, event, today, zone, lenient) ==
    LET eventDate ==
            setHoursZero(newDate(OrElse(event.endDate, event.startDate), lenient), zone)
    IN  IF DateLt(eventDate, today)
        THEN [lists EXCEPT !.past = Append(@, event), !.future = Append(@, event)]
        ELSE [lists EXCEPT !.future = Append(@, event)]

pushEvent(lists, event, today, zone, lenient) ==
    LET eventDate ==
            setHoursZero(newDate(OrElse(event.endDate, event.startDate), lenient), zone)
    IN  IF DateLt(eventDate, today)
        THEN [lists EXCEPT !.past = Append(@, event)]
        ELSE [lists EXCEPT !.future = Append(@, event)]

RECURSIVE classifyEvents(_, _, _, _, _)
classifyEvents(events, lists, today, zone, lenient) ==
    IF events = <<>> THEN lists
    ELSE classifyEvents(Tail(events), pushEvent(lists, Head(events), today, zone, lenient),
                        today, zone, lenient)

-----------------------------------------------------------------------------
(* Search module: getScoutEvents *)

hasScout_OrAdult(event, normalizedName) ==
    \E i \in 1..Len(event.scouts \o event.adults) :
        trim(toLowerCase((event.scouts \o event.adults)[i])) = normalizedName

\* event.scouts.some(name => String(name).toLowerCase().trim() === normalizedName)
hasScout(event, normalizedName) ==
    \E i \in 1..Len(event.scouts) : trim(toLowerCase(event.scouts[i])) = normalizedName

\* events.filter(event => ... some(...))
RECURSIVE filterByScout(_, _)
filterByScout(events, normalizedName) ==
    IF events = <<>> THEN <<>>
    ELSE IF hasScout(Head(events), normalizedName)
    THEN <<Head(events)>> \o filterByScout(Tail(events), normalizedName)
    ELSE filterByScout(Tail(events), normalizedName)

getScoutEvents(scoutName, future, past) ==
    LET normalizedName == trim(toLowerCase(scoutName))
    IN  [ future |-> filterByScout(future, normalizedName),
          past   |-> filterByScout(past, normalizedName) ]

-----------------------------------------------------------------------------
(* UI module: the total-days statistic of renderScoutHistory *)

\* A Number is NaN or a finite value.
NaN == [nan |-> TRUE]
Number(n) == [nan |-> FALSE, value |-> n]

\* a + b on Numbers
Plus(a, b) == IF a.nan \/ b.nan THEN NaN ELSE Number(a.value + b.value)

\* 1000 * 60 * 60 * 24 ms, in the hours Dates are counted in
HoursPerDay == 24

\* Math.ceil((end - start) / (1000 * 60 * 60 * 24)) + 1
daysOf(start, end) ==
    IF start.nan \/ end.nan THEN NaN
    ELSE Number(-((start.time - end.time) \div HoursPerDay) + 1)

\* The callback of pastEvents.forEach (ui.js:106-117).  new Date does not
\* throw on an unparsable string, so the catch block is never entered.
addDays(total, event, lenient) ==
    IF event.startDate # "" /\ event.endDate # ""
    THEN Plus(total, daysOf(newDate(event.startDate, lenient), newDate(event.endDate, lenient)))
    ELSE total

RECURSIVE totalDaysFrom(_, _, _)
totalDaysFrom(total, events, lenient) ==
    IF events = <<>> THEN total
    ELSE totalDaysFrom(addDays(total, Head(events), lenient), Tail(events), lenient)

\* let totalDays = 0; ... (ui.js:104-118)
totalDaysOf(past, lenient) == totalDaysFrom(Number(0), past, lenient)

-----------------------------------------------------------------------------
(* The application: loads, the refresh timer, the clock and the sheet *)

MaxLoads == 2
MaxClockTicks == 2

Cells(values) == [c |-> Array([i \in 1..Len(values) |-> [v |-> values[i]]])]

Labels(labels) == Array([i \in 1..Len(labels) |-> [label |-> labels[i]]])

TableOf(rows) == [cols |-> Labels(SheetColumns), rows |-> Array(rows)]

\* The versions of the sheet the server may hold.
SheetTable(name) ==
    CASE name = "A" ->
           TableOf(<< Cells(<<"1", "2025 - 11/29 - Camp", "Jane", "Doe", "Fox">>),
                      Cells(<<"2", "2025 - 11/27 - Hike", "Jon", "Smith", "Fox">>),
                      Cells(<<"3", "2025 - 13/45 - Fundraiser", "Jane", "Doe", "Adult">>) >>)
      [] name = "B" ->
           TableOf(<< Cells(<<"1", "2025 - 11/29 - Camp", "Jon", "Smith", "Adult">>),
                      Cells(<<"2", "2025 - 11/29 - Service", "jane", "doe", "Fox">>),
                      Cells(<<"3", "2025 - 2/30 - Cleanup", "Jane", "Doe", "Fox">>) >>)
      [] OTHER -> TableOf(<<>>)

SheetNames == {"A", "B", "C"}

\* What loadFutureEvents resolves to for each version of the sheet, and what
\* convertSheetToEvents makes of it, tabulated once per version.
FetchedData == [name \in SheetNames |-> parseSheetData(SheetTable(name))]
ConvertedEvents == [name \in SheetNames |-> convertSheetToEvents(FetchedData[name])]

TimeZones == {-5, 0, 9}

\* 2025-11-28T12:00Z
ClockStart == 24 * DayNumber(2025, 11, 28) + 12

NoLoad == [done |-> FALSE, id |-> 0, resolved |-> 0, allEvents |-> <<>>, now |-> 0]

Init ==
    /\ futureEvents = <<>>
    /\ pastEvents = <<>>
    /\ allScouts = <<>>
    /\ selectedScout = None
    /\ autoRefreshInterval = None
    /\ searchListener = FALSE
    /\ searchTimeout = Null
    /\ clearBtn = FALSE
    /\ loads = {}
    /\ started = 0
    /\ sheet \in SheetNames
    /\ now = ClockStart
    /\ tz \in TimeZones
    /\ lenientDates \in BOOLEAN
    /\ lastLoad = NoLoad
    /\ SimIdle /\ SearchIdle /\ ConvertIdle /\ IngestIdle /\ HistoryIdle
    /\ pc = "app"

harnessVars == << str1, str2, similarity, query, results, sheetData, allEvents,
                 payload, allAdults, scoutEvents, totalDays, pc >>

\* initializeApp calls setupSearchListener after the sheet has loaded
\* (part_001:80), not before its await.
listenerBeforeFetch_Eager == TRUE

listenerBeforeFetch == FALSE

\* The password form is submitted with the right password (password.js:101-
\* 125): initializeApp runs up to its await, with the fetch of the sheet under
\* way, and startAutoRefresh arms the 30 s timer.  The form is then hidden.
Authenticate ==
    /\ started = 0
    /\ loads' = loads \cup {[id |-> started + 1, kind |-> "init", data |-> sheet]}
    /\ started' = started + 1
    /\ autoRefreshInterval' = "timer"
    /\ searchListener' = (searchListener \/ listenerBeforeFetch)
    /\ UNCHANGED << futureEvents, pastEvents, allScouts, selectedScout, searchTimeout, clearBtn,
                    sheet, now, tz, lenientDates, lastLoad, harnessVars >>

\* beforeunload: stopAutoRefresh clears the refresh timer, and the pending
\* debounce timer is cleared too (part_001:377-382).
BeforeUnload ==
    /\ autoRefreshInterval # None
    /\ autoRefreshInterval' = None
    /\ searchTimeout' = Null
    /\ UNCHANGED << futureEvents, pastEvents, allScouts, selectedScout, searchListener,
                    clearBtn, loads, started,
                    sheet, now, tz, lenientDates, lastLoad, harnessVars >>

\* The timer fires: the callback runs up to its await.
RefreshTick ==
    /\ autoRefreshInterval # None
    /\ started < MaxLoads
    /\ loads' = loads \cup {[id |-> started + 1, kind |-> "tick", data |-> sheet]}
    /\ started' = started + 1
    /\ UNCHANGED << futureEvents, pastEvents, allScouts, selectedScout, autoRefreshInterval,
                    searchListener, searchTimeout, clearBtn,
                    sheet, now, tz, lenientDates, lastLoad, harnessVars >>

\* loadFutureEvents resolves for load l: the rest of initializeApp
\* (part_001:34-84) or of the timer callback (part_001:317-349) runs.
LoadResolves(l) ==
    LET events == ConvertedEvents[l.data]
        today == setHoursZero(DateAt(now), tz)
    IN  \E lists \in {classifyEvents(events, [future |-> <<>>, past |-> <<>>],
                                     today, tz, lenientDates)} :
        /\ futureEvents' = lists.future
        /\ pastEvents' = lists.past
        /\ allScouts' = extractUniqueScouts(lists.future, lists.past)
        /\ lastLoad' = [done |-> TRUE, id |-> l.id, resolved |-> lastLoad.resolved + 1,
                        allEvents |-> events, now |-> now]
        /\ loads' = loads \ {l}
        \* initializeApp goes on to setupSearchListener (part_001:80)
        /\ searchListener' = (searchListener \/ l.kind = "init")
        \* the timer callback renders the selected scout again (part_001:344-347)
        /\ IF l.kind = "tick" /\ selectedScout # None
           THEN /\ scoutEvents' = getScoutEvents(selectedScout, lists.future, lists.past)
                /\ totalDays' = totalDaysOf(scoutEvents'.past, lenientDates)
           ELSE UNCHANGED << scoutEvents, totalDays >>
        /\ UNCHANGED << selectedScout, autoRefreshInterval, searchTimeout, clearBtn, started, sheet,
                        now, tz, lenientDates, simVars, searchVars, convertVars,
                        ingestVars, allAdults, pc >>

\* A catch block that would also stop the refresh timer.
LoadRejects_StopsTimer(l) ==
    /\ loads' = loads \ {l}
    /\ autoRefreshInterval' = None
    /\ UNCHANGED << futureEvents, pastEvents, allScouts, selectedScout,
                    searchListener, searchTimeout, clearBtn,
                    started, sheet, now, tz, lenientDates, lastLoad, harnessVars >>

\* loadFutureEvents rejects (fetch error, bad status, unparsable response):
\* the catch block only reports the error.
LoadRejects(l) ==
    /\ loads' = loads \ {l}
    /\ UNCHANGED << futureEvents, pastEvents, allScouts, selectedScout, autoRefreshInterval,
                    searchListener, searchTimeout, clearBtn,
                    started, sheet, now, tz, lenientDates, lastLoad, harnessVars >>

\* Somebody edits the sheet.
SheetChanges ==
    /\ \E name \in SheetNames \ {sheet} : sheet' = name
    /\ UNCHANGED << futureEvents, pastEvents, allScouts, selectedScout, autoRefreshInterval,
                    searchListener, searchTimeout, clearBtn,
                    loads, started, now, tz, lenientDates, lastLoad, harnessVars >>

\* Twelve hours pass.
ClockAdvances ==
    /\ now < ClockStart + 12 * MaxClockTicks
    /\ now' = now + 12
    /\ UNCHANGED << futureEvents, pastEvents, allScouts, selectedScout, autoRefreshInterval,
                    searchListener, searchTimeout, clearBtn,
                    loads, started, sheet, tz, lenientDates, lastLoad, harnessVars >>

Next ==
    \/ Authenticate
    \/ BeforeUnload
    \/ RefreshTick
    \/ \E l \in loads : LoadResolves(l)
    \/ \E l \in loads : LoadRejects(l)
    \/ SheetChanges
    \/ ClockAdvances

Spec == Init /\ [][Next]_vars

-----------------------------------------------------------------------------
(* Claims about the classification of a load *)

Occurrences(seq, e) == Cardinality({ i \in DOMAIN seq : seq[i] = e })

\* endDate if present, else startDate
ComparisonDate(event) == IF event.endDate # "" THEN event.endDate ELSE event.startDate

\* C3: after every completed load, every event convertSheetToEvents returned
\* is in exactly one of futureEvents and pastEvents (once, and in one list
\* only), the lists hold nothing else, and two events with the same comparison
\* date are in the same list.
C3_ClassificationPartition ==
    lastLoad.done =>
        /\ \A i \in DOMAIN lastLoad.allEvents :
              Occurrences(futureEvents, lastLoad.allEvents[i])
                  + Occurrences(pastEvents, lastLoad.allEvents[i]) = 1
        /\ Len(futureEvents) + Len(pastEvents) = Len(lastLoad.allEvents)
        /\ \A i, j \in DOMAIN lastLoad.allEvents :
              ComparisonDate(lastLoad.allEvents[i]) = ComparisonDate(lastLoad.allEvents[j])
                  => (Occurrences(pastEvents, lastLoad.allEvents[i]) = 1
                          <=> Occurrences(pastEvents, lastLoad.allEvents[j]) = 1)

\* A load has completed that put events in both lists, two of them with the
\* same date, and one with a date that is no date.
C3_Witness ==
    /\ lastLoad.done
    /\ futureEvents # <<>> /\ pastEvents # <<>>
    /\ \E i, j \in DOMAIN lastLoad.allEvents :
          /\ i # j
          /\ ComparisonDate(lastLoad.allEvents[i]) = ComparisonDate(lastLoad.allEvents[j])

\* The string names a day of the civil calendar.
IsCivilDate(s) ==
    /\ Len(s) = 10
    /\ digitsToNumber(SubSeq(s, 6, 7)) \in 1..12
    /\ digitsToNumber(SubSeq(s, 9, 10))
           \in 1..DaysInMonth(digitsToNumber(SubSeq(s, 1, 4)), digitsToNumber(SubSeq(s, 6, 7)))

\* The day that string names, in days since 2025-01-01.
CivilDay(s) ==
    DayNumber(digitsToNumber(SubSeq(s, 1, 4)), digitsToNumber(SubSeq(s, 6, 7)),
              digitsToNumber(SubSeq(s, 9, 10)))

\* Today's calendar date on a machine whose local time is UTC + zone hours.
LocalDay(clock, zone) == (clock + zone) \div 24

\* C4: an event is classified as past exactly when its comparison calendar date
\* is strictly earlier than today's calendar date (an event dated today is
\* future), for every time-zone offset of the machine.
C4_PastIffCalendarDateBeforeToday ==
    lastLoad.done =>
        \A i \in DOMAIN lastLoad.allEvents :
            LET event == lastLoad.allEvents[i]
            IN  IsCivilDate(ComparisonDate(event)) =>
                    (Occurrences(pastEvents, event) = 1
                         <=> CivilDay(ComparisonDate(event)) < LocalDay(lastLoad.now, tz))

\* C5: an event whose date string the engine cannot parse is classified as
\* future, and every other event of the load is classified as well.
C5_UnparsableDateIsFuture ==
    lastLoad.done =>
        /\ \A i \in DOMAIN lastLoad.allEvents :
              newDate(ComparisonDate(lastLoad.allEvents[i]), lenientDates).nan
                  => /\ Occurrences(futureEvents, lastLoad.allEvents[i]) = 1
                     /\ Occurrences(pastEvents, lastLoad.allEvents[i]) = 0
        /\ \A i \in DOMAIN lastLoad.allEvents :
              Occurrences(futureEvents \o pastEvents, lastLoad.allEvents[i]) = 1

\* A load has completed with the event dated "2025-13-45" among the future
\* events and another event of the same load among the past ones.
C5_Witness ==
    /\ lastLoad.done
    /\ \E i \in DOMAIN futureEvents : futureEvents[i].startDate = "2025-13-45"
    /\ \E i \in DOMAIN pastEvents : IsCivilDate(pastEvents[i].startDate)

-----------------------------------------------------------------------------
(* Claims about calculateSimilarity on blank arguments *)

\* C11: calculateSimilarity returns 0 whenever exactly one of its arguments is
\* empty after trimming (the empty string or a whitespace-only string) and the
\* other is not.
C11_BlankAgainstNonBlankIsZero ==
    (pc = "done" /\ (Norm(str1) = "") # (Norm(str2) = "")) => similarity = Num(0, 1)

-----------------------------------------------------------------------------
(* Google Sheet module: loadFutureEvents, from the parsed JSON on *)

\* The argument after the call: loadFutureEvents and parseSheetData only read
\* the parsed JSON.
payloadAfterLoad(data) == data

\* What a call leaves behind when it throws.
Raised == [raised |-> TRUE]

\* !object[property] for a property that holds an object, an array or null
isMissing(object, property) ==
    property \notin DOMAIN object \/ object[property] = Null

\* loadFutureEvents from const data = JSON.parse(...) on (part_000:69-79):
\* data.table throws a TypeError when data is null, the function throws when
\* the table or its rows are missing, and otherwise returns parseSheetData's
\* result.
loadFutureEvents(data) ==
    IF data = Null THEN Raised
    ELSE IF isMissing(data, "table") THEN Raised
    ELSE IF isMissing(data.table, "rows") THEN Raised
    ELSE parseSheetData(data.table)

-----------------------------------------------------------------------------
(* The ingestion pipeline on one payload: loadFutureEvents, then
   convertSheetToEvents, then both once more *)

MaxCols == 3

LabelValues == {"", "Event", "First Name", "Last Name"}
CellValues == <<"2025 - 11/29 - Camp", "Jane", "Doe", "Fox", "x">>

\* Tables with one full row under every choice of labels, blank ones included.
LabelledPayloads ==
    { [table |-> [cols |-> Labels(labels),
                  rows |-> Array(<<Cells(SubSeq(CellValues, 1, MaxCols))>>)]] :
          labels \in SeqsUpTo(LabelValues, MaxCols) }

RawSignups ==
    { Cells(<<"1", event, person[1], person[2], patrol>>) :
          event \in {"2025 - 11/29 - Camp", "2025 - 12/1 - Hike"},
          person \in PersonNames, patrol \in PatrolValues }

\* Well-formed tables of sign-ups.
SignupPayloads == { [table |-> TableOf(rows)] : rows \in SeqsUpTo(RawSignups, MaxRows) }

GoodRow == Cells(<<"1", "2025 - 11/29 - Camp", "Jane", "Doe", "Fox">>)
NotAnArray == [length |-> "0"]

\* Payloads that lack the expected structure.
MalformedPayloads ==
    { Null,
      [version |-> "0.6"],
      [table |-> Null],
      [table |-> [cols |-> Labels(SheetColumns)]],
      [table |-> [cols |-> Labels(SheetColumns), rows |-> Null]],
      [table |-> [cols |-> Labels(SheetColumns), rows |-> NotAnArray]],
      [table |-> [rows |-> Array(<<GoodRow>>)]],
      [table |-> [cols |-> Null, rows |-> Array(<<GoodRow>>)]],
      [table |-> [cols |-> NotAnArray, rows |-> Array(<<GoodRow>>)]],
      [table |-> [cols |-> Array(<<Null, [id |-> "B"], [label |-> "First Name"]>>),
                  rows |-> Array(<<GoodRow>>)]],
      [table |-> [cols |-> Labels(SheetColumns), rows |-> Array(<<Null, GoodRow>>)]],
      [table |-> [cols |-> Labels(SheetColumns),
                  rows |-> Array(<<[id |-> "r1"], GoodRow>>)]],
      [table |-> [cols |-> Labels(SheetColumns),
                  rows |-> Array(<<[c |-> Null], [c |-> NotAnArray], GoodRow>>)]],
      [table |-> [cols |-> Labels(SheetColumns),
                  rows |-> Array(<<[c |-> Array(<<Null, [v |-> "2025 - 11/29 - Camp"],
                                                  [f |-> "Jane"], [v |-> "Doe"], Null>>)],
                                   GoodRow>>)]],
      [table |-> [cols |-> Labels(SheetColumns), rows |-> Array(<<>>)]] }

InitIngest ==
    /\ AppIdle /\ SimIdle /\ SearchIdle /\ ConvertIdle /\ HistoryIdle
    /\ payload \in LabelledPayloads \cup SignupPayloads \cup MalformedPayloads
    /\ pc = "load"

\* loadFutureEvents runs on the payload.
LoadFutureEvents ==
    /\ pc = "load"
    /\ sheetData' = loadFutureEvents(payload)
    /\ payload' = payloadAfterLoad(payload)
    /\ pc' = IF sheetData' = Raised THEN "raised" ELSE "call"
    /\ UNCHANGED << appVars, simVars, searchVars, allEvents, historyVars >>

\* The same payload goes through loadFutureEvents and convertSheetToEvents
\* once more.
Reingest ==
    /\ pc = "done"
    /\ allEvents' = convertSheetToEvents(loadFutureEvents(payload))
    /\ sheetData' = rowsAfterConvert(loadFutureEvents(payload))
    /\ payload' = payloadAfterLoad(payload)
    /\ pc' = "again"
    /\ UNCHANGED << appVars, simVars, searchVars, historyVars >>

NextIngest == LoadFutureEvents \/ ConvertSheetToEvents \/ Reingest

SpecIngest == InitIngest /\ [][NextIngest]_vars

-----------------------------------------------------------------------------
(* Claims about parseSheetData *)

\* The payload is a table of label objects and rows of cells with values.
IsPlainTable(data) ==
    /\ data # Null /\ ~isMissing(data, "table")
    /\ isArrayProperty(data.table, "cols") /\ isArrayProperty(data.table, "rows")
    /\ \A i \in DOMAIN data.table.cols.array : "label" \in DOMAIN data.table.cols.array[i]
    /\ \A r \in DOMAIN data.table.rows.array :
          /\ isArrayProperty(data.table.rows.array[r], "c")
          /\ \A i \in DOMAIN data.table.rows.array[r].c.array :
                "v" \in DOMAIN data.table.rows.array[r].c.array[i]

\* The label the cell at zero-based index i belongs under: the one provided
\* for column i when it is non-blank, else ColumnN with N = i + 1.
ExpectedLabel(cols, i) ==
    IF i < Len(cols) /\ trim(cols[i + 1].label) # ""
    THEN cols[i + 1].label
    ELSE "Column" \o numberToString(i + 1)

\* C12: parseSheetData stores the cell at index i of a row under the label
\* provided for column i when that label is non-blank and under ColumnN with
\* N = i + 1 when it is blank, whatever the labels at earlier indexes are.
\* Stated for tables all of whose rows are kept and whose cells of a row belong
\* under different labels.
C12_CellsUnderTheirColumnLabel ==
    (pc = "call" /\ IsPlainTable(payload)
                 /\ Len(sheetData.rows) = Len(payload.table.rows.array)) =>
        \A r \in DOMAIN sheetData.rows :
            LET cells == payload.table.rows.array[r].c.array
                cols == payload.table.cols.array
            IN  (\A i, j \in 0..(Len(cells) - 1) :
                     i # j => ExpectedLabel(cols, i) # ExpectedLabel(cols, j))
                => \A i \in 0..(Len(cells) - 1) :
                       /\ ExpectedLabel(cols, i) \in DOMAIN sheetData.rows[r]
                       /\ sheetData.rows[r][ExpectedLabel(cols, i)] = cells[i + 1].v

-----------------------------------------------------------------------------
(* Claims about the rows convertSheetToEvents leaves out *)

\* The rows whose cleaned event name, start date and person name are all
\* non-empty, in their order.
RECURSIVE ValidRows(_, _)
ValidRows(rows, columns) ==
    IF rows = <<>> THEN <<>>
    ELSE IF IsValidSignup(extractEventFromRow(Head(rows), columns))
    THEN <<Head(rows)>> \o ValidRows(Tail(rows), columns)
    ELSE ValidRows(Tail(rows), columns)

\* C13: a row whose cleaned event name, start date or person name is empty
\* contributes nothing to the output of convertSheetToEvents (the output is
\* the one of the remaining rows alone), so every EventRecord has a non-empty
\* eventName and startDate and every scouts or adults entry is a non-empty name.
C13_InvalidRowsContributeNothing ==
    pc = "done" =>
        /\ allEvents = convertSheetToEvents(
               [sheetData EXCEPT !.rows = ValidRows(sheetData.rows, sheetData.columns)])
        /\ \A e \in 1..Len(allEvents) :
              /\ allEvents[e].eventName # ""
              /\ allEvents[e].startDate # ""
              /\ \A i \in 1..Len(allEvents[e].scouts) : trim(allEvents[e].scouts[i]) # ""
              /\ \A i \in 1..Len(allEvents[e].adults) : trim(allEvents[e].adults[i]) # ""

\* A conversion of an undated row followed by a valid one has produced the
\* valid row's event.
C13_Witness ==
    /\ pc = "done"
    /\ Len(sheetData.rows) = 2
    /\ extractEventFromRow(sheetData.rows[1], sheetData.columns).startDate = ""
    /\ extractEventFromRow(sheetData.rows[1], sheetData.columns).scoutName # ""
    /\ IsValidSignup(extractEventFromRow(sheetData.rows[2], sheetData.columns))
    /\ Len(allEvents) = 1

-----------------------------------------------------------------------------
(* Claims about the dates extractEventFromRow returns *)

\* s has the form YYYY-MM-DD.
IsIsoDate(s) ==
    /\ Len(s) = 10
    /\ \A i \in {1, 2, 3, 4, 6, 7, 9, 10} : IsDigit(Ch(s, i))
    /\ Ch(s, 5) = "-" /\ Ch(s, 8) = "-"

\* The event text of a row, as extractEventFromRow reads it.
EventTextOf(row) == trim(row["Which event did you signup for?"])

\* C14: every record extractEventFromRow returns has endDate equal to
\* startDate, both the same zero-padded YYYY-MM-DD string when the event text
\* contains the year - month/day pattern and both empty otherwise; so every
\* EventRecord of convertSheetToEvents has endDate equal to startDate.
C14_EndDateEqualsStartDate ==
    pc = "done" =>
        /\ \A r \in 1..Len(sheetData.rows) :
              LET info == extractEventFromRow(sheetData.rows[r], sheetData.columns)
                  found == dateMatchOf(EventTextOf(sheetData.rows[r]))
              IN  /\ info.endDate = info.startDate
                  /\ found.matched =>
                        /\ IsIsoDate(info.startDate)
                        /\ SubSeq(info.startDate, 1, 4) = found.year
                        /\ digitsToNumber(SubSeq(info.startDate, 6, 7))
                               = digitsToNumber(found.month)
                        /\ digitsToNumber(SubSeq(info.startDate, 9, 10))
                               = digitsToNumber(found.day)
                  /\ ~found.matched => info.startDate = ""
        /\ \A e \in 1..Len(allEvents) : allEvents[e].endDate = allEvents[e].startDate

\* A row for "2025 - 12/1 - Camp" has become an event from 2025-12-01 to
\* 2025-12-01.
C14_Witness ==
    /\ pc = "done"
    /\ \E r \in 1..Len(sheetData.rows) :
          EventTextOf(sheetData.rows[r]) = "2025 - 12/1 - Camp"
    /\ \E e \in 1..Len(allEvents) :
          allEvents[e].startDate = "2025-12-01" /\ allEvents[e].endDate = "2025-12-01"

-----------------------------------------------------------------------------
(* extractUniqueScouts and extractUniqueAdults on a small corpus *)

MaxEntries == 3

EntryNames == {"Jane Doe", "jane doe ", "Jon Smith"}

\* A sign-up: who, in which role, for which of the events of the corpus (two
\* future ones and a past one).
Entries ==
    [name : EntryNames, isAdult : BOOLEAN, event : {"Camp", "Hike", "Service Project"}]

RECURSIVE namesOf(_, _, _)
namesOf(entries, event, isAdult) ==
    IF entries = <<>> THEN <<>>
    ELSE IF Head(entries).event = event /\ Head(entries).isAdult = isAdult
    THEN <<Head(entries).name>> \o namesOf(Tail(entries), event, isAdult)
    ELSE namesOf(Tail(entries), event, isAdult)

EventWith(entries, event, date) ==
    [ eventName |-> event, startDate |-> date, endDate |-> date, category |-> "Other",
      scouts |-> namesOf(entries, event, FALSE),
      adults |-> namesOf(entries, event, TRUE) ]

InitExtract ==
    /\ \E entries \in SeqsUpTo(Entries, MaxEntries) :
          /\ futureEvents = << EventWith(entries, "Camp", "2025-11-29"),
                               EventWith(entries, "Hike", "2025-12-01") >>
          /\ pastEvents = << EventWith(entries, "Service Project", "2025-11-27") >>
    /\ allScouts = <<>>
    /\ selectedScout = None
    /\ autoRefreshInterval = None
    /\ searchListener = FALSE
    /\ searchTimeout = Null
    /\ clearBtn = FALSE
    /\ loads = {}
    /\ started = 0
    /\ sheet = None
    /\ now = 0
    /\ tz = 0
    /\ lenientDates = FALSE
    /\ lastLoad = None
    /\ SimIdle /\ SearchIdle /\ ConvertIdle /\ IngestIdle /\ HistoryIdle
    /\ pc = "call"

ExtractUniqueScouts ==
    /\ pc = "call"
    /\ allScouts' = extractUniqueScouts(futureEvents, pastEvents)
    /\ pc' = "adults"
    /\ UNCHANGED << futureEvents, pastEvents, selectedScout, autoRefreshInterval,
                    searchListener, searchTimeout, clearBtn, loads, started, sheet,
                    now, tz,
                    lenientDates, lastLoad,
                    simVars, searchVars, convertVars, ingestVars, historyVars >>

ExtractUniqueAdults ==
    /\ pc = "adults"
    /\ allAdults' = extractUniqueAdults(futureEvents, pastEvents)
    /\ pc' = "done"
    /\ UNCHANGED << appVars, simVars, searchVars, convertVars, ingestVars,
                    scoutEvents, totalDays >>

NextExtract == ExtractUniqueScouts \/ ExtractUniqueAdults

SpecExtract == InitExtract /\ [][NextExtract]_vars

-----------------------------------------------------------------------------
(* Claims about extractUniqueScouts *)

RECURSIVE Flatten(_)
Flatten(seqs) == IF seqs = <<>> THEN <<>> ELSE Head(seqs) \o Flatten(Tail(seqs))

\* The names in the scouts lists (or the adults lists), future events before
\* past events, in the order they are listed.
WalkedNames(isAdult) ==
    LET events == futureEvents \o pastEvents
    IN  Flatten([e \in 1..Len(events) |->
                    IF isAdult THEN events[e].adults ELSE events[e].scouts])

FirstSeen(names, key) == CHOOSE i \in 1..Len(names) :
    /\ Norm(names[i]) = key
    /\ \A k \in 1..(i - 1) : Norm(names[k]) # key

\* identities holds one record for each distinct non-empty lowercase trimmed
\* name of names, in first-seen order.
OnePerNameInFirstSeenOrder(identities, names) ==
    /\ { identities[i].normalized : i \in 1..Len(identities) }
           = { Norm(names[k]) : k \in 1..Len(names) } \ {""}
    /\ \A i, j \in 1..Len(identities) :
          i < j => FirstSeen(names, identities[i].normalized)
                       < FirstSeen(names, identities[j].normalized)

\* C15: extractUniqueScouts returns exactly one IdentityRecord for each
\* distinct lowercase trimmed name in a scouts list, in first-seen order with
\* future events walked before past events, and none for a name that is only
\* in adults lists; extractUniqueAdults does the same with the adults lists,
\* so a name that is a scout in one event and an adult in another is in both.
C15_OneIdentityPerScoutName ==
    pc = "done" =>
        /\ OnePerNameInFirstSeenOrder(allScouts, WalkedNames(FALSE))
        /\ OnePerNameInFirstSeenOrder(allAdults, WalkedNames(TRUE))

\* Jane Doe is a scout of the past event under two spellings and an adult of
\* a future one: she is the one scout, under the first spelling, and the one
\* adult.
C15_Witness ==
    /\ pc = "done"
    /\ pastEvents[1].scouts = <<"jane doe ", "Jane Doe">>
    /\ \E e \in 1..Len(futureEvents) : futureEvents[e].adults = <<"Jane Doe">>
    /\ Len(allScouts) = 1 /\ allScouts[1].fullName = "jane doe"
    /\ Len(allAdults) = 1 /\ allAdults[1].fullName = "Jane Doe"

-----------------------------------------------------------------------------
(* A person lookup: getScoutEvents, then renderScoutHistory on its result *)

HistoryNames == {"Jane Doe", "jon smith "}
LookupNames == {"jane doe ", "Jon Smith"}

HistoryEntries ==
    [name : HistoryNames, isAdult : BOOLEAN, event : {"Camp", "Service Project", "Cleanup"}]

\* Start and end date of the first past event: one day, three days, dates that
\* are no dates, and a missing end date.
DateRanges ==
    { <<"2025-11-27", "2025-11-27">>, <<"2025-11-25", "2025-11-27">>,
      <<"2025-13-45", "2025-13-45">>, <<"2025-11-27", "2025-11-45">>,
      <<"2025-11-27", "">> }

InitHistory ==
    /\ \E entries \in SeqsUpTo(HistoryEntries, MaxEntries), range \in DateRanges :
          /\ futureEvents = << EventWith(entries, "Camp", "2025-11-29") >>
          /\ pastEvents =
                << [EventWith(entries, "Service Project", range[1])
                        EXCEPT !.endDate = range[2]],
                   [EventWith(entries, "Cleanup", "2025-11-20")
                        EXCEPT !.endDate = "2025-11-21"] >>
    /\ selectedScout \in LookupNames
    /\ allScouts = <<>>
    /\ autoRefreshInterval = None
    /\ searchListener = FALSE
    /\ searchTimeout = Null
    /\ clearBtn = FALSE
    /\ loads = {}
    /\ started = 0
    /\ sheet = None
    /\ now = 0
    /\ tz = 0
    /\ lenientDates = FALSE
    /\ lastLoad = None
    /\ SimIdle /\ SearchIdle /\ ConvertIdle /\ IngestIdle /\ HistoryIdle
    /\ pc = "call"

GetScoutEvents ==
    /\ pc = "call"
    /\ scoutEvents' = getScoutEvents(selectedScout, futureEvents, pastEvents)
    /\ pc' = "render"
    /\ UNCHANGED << appVars, simVars, searchVars, convertVars, ingestVars,
                    allAdults, totalDays >>

RenderScoutHistory ==
    /\ pc = "render"
    /\ totalDays' = totalDaysOf(scoutEvents.past, lenientDates)
    /\ pc' = "done"
    /\ UNCHANGED << appVars, simVars, searchVars, convertVars, ingestVars,
                    allAdults, scoutEvents >>

NextHistory == GetScoutEvents \/ RenderScoutHistory

SpecHistory == InitHistory /\ [][NextHistory]_vars

-----------------------------------------------------------------------------
(* Claims about getScoutEvents *)

\* The person is listed among the scouts of the event, ignoring case and
\* surrounding white space.
ListsAsScout(event, name) ==
    \E i \in 1..Len(event.scouts) : Norm(event.scouts[i]) = Norm(name)

\* selected holds exactly the events of source that list the person as a
\* scout, each once, in the order of source.
ExactlyTheScoutsEvents(selected, source, name) ==
    /\ \A i \in 1..Len(selected) :
          PositionIn(source, selected[i]) > 0 /\ ListsAsScout(selected[i], name)
    /\ \A k \in 1..Len(source) :
          ListsAsScout(source[k], name) => PositionIn(selected, source[k]) > 0
    /\ \A i, j \in 1..Len(selected) :
          i < j => PositionIn(source, selected[i]) < PositionIn(source, selected[j])

\* C16: getScoutEvents returns in future exactly the events of futureEvents,
\* and in past exactly the events of pastEvents, whose scouts list has an
\* entry equal to the name after lowercasing and trimming both, in their
\* original order; an event that lists the person only under adults is not
\* returned.
C16_EventsOfTheScout ==
    pc \in {"render", "done"} =>
        /\ ExactlyTheScoutsEvents(scoutEvents.future, futureEvents, selectedScout)
        /\ ExactlyTheScoutsEvents(scoutEvents.past, pastEvents, selectedScout)

\* The person is a scout of both past events under another spelling and only
\* an adult of the future one: both past events are returned and no future one.
C16_Witness ==
    /\ pc = "render"
    /\ selectedScout = "jane doe "
    /\ futureEvents[1].adults = <<"Jane Doe">>
    /\ scoutEvents.future = <<>>
    /\ scoutEvents.past = pastEvents

-----------------------------------------------------------------------------
(* Claims about the total-days statistic *)

\* Sum over the events whose start and end date both name a day of the
\* calendar of (end - start in days) + 1.
RECURSIVE DaysOfParsable(_)
DaysOfParsable(events) ==
    IF events = <<>> THEN 0
    ELSE (IF IsCivilDate(Head(events).startDate) /\ IsCivilDate(Head(events).endDate)
          THEN CivilDay(Head(events).endDate) - CivilDay(Head(events).startDate) + 1
          ELSE 0)
         + DaysOfParsable(Tail(events))

\* C20: in renderScoutHistory a past event whose start or end date cannot be
\* parsed adds nothing to the total-days statistic: the total is the sum of
\* (end - start in days) + 1 over the past events with parsable dates, and is
\* always a finite number.
C20_UnparsableDatesAddNoDays ==
    pc = "done" =>
        /\ ~totalDays.nan
        /\ totalDays = Number(DaysOfParsable(scoutEvents.past))

-----------------------------------------------------------------------------
(* Claims about the ingestion pipeline *)

C19_MalformedPayloadNeverRaises ==
    /\ pc # "raised"
    /\ pc \in {"call", "done", "again"} =>
           /\ "rows" \in DOMAIN sheetData
           /\ "columns" \in DOMAIN sheetData
    /\ pc \in {"done", "again"} =>
           \A e \in 1..Len(allEvents) :
               allEvents[e].eventName # "" /\ allEvents[e].startDate # ""


-----------------------------------------------------------------------------
(* The search box: input, debounce timer, Enter key and suggestion clicks,   *)
(* running between the loads of the application                              *)

\* What the user types into the search input.
TypedTexts == {"", "jon", "jane doe ", "zz"}

\* renderSearchSuggestions shows the top 5 suggestions (ui.js:76).
MaxSuggestions == 5

topSuggestions(suggestions) ==
    SubSeq(suggestions, 1,
           IF Len(suggestions) < MaxSuggestions THEN Len(suggestions) ELSE MaxSuggestions)

\* selectScout(scoutName) (part_001:222-245)
selectScout(scoutName) ==
    /\ selectedScout' = scoutName
    /\ query' = scoutName
    /\ results' = <<>>
    /\ scoutEvents' = getScoutEvents(scoutName, futureEvents, pastEvents)
    /\ totalDays' = totalDaysOf(scoutEvents'.past, lenientDates)

\* handleSearch(q) (part_001:192-217)
handleSearch(q) ==
    /\ clearBtn' = (q # "")
    /\ IF q = ""
       THEN /\ results' = <<>>
            /\ scoutEvents' = Null
            /\ totalDays' = None
            /\ UNCHANGED << selectedScout, query >>
       ELSE \E suggestions \in {searchScouts(q, allScouts)} :
            \E exact \in {{ i \in DOMAIN suggestions :
                              toLowerCase(suggestions[i].fullName) = toLowerCase(q) }} :
               IF exact # {}
               THEN \E first \in exact :
                       /\ \A k \in exact : first <= k
                       /\ selectScout(suggestions[first].fullName)
               ELSE /\ results' = topSuggestions(suggestions)
                    /\ UNCHANGED << selectedScout, query, scoutEvents, totalDays >>

uiUnchanged ==
    UNCHANGED << futureEvents, pastEvents, allScouts, autoRefreshInterval, searchListener,
                 loads, started, sheet, now, tz, lenientDates, lastLoad,
                 simVars, convertVars, ingestVars, allAdults, pc >>

\* The input event of the search box (part_001:160-172): the pending timer
\* is replaced by one for the trimmed text.
InputEvent(text) ==
    /\ searchListener
    /\ query' = text
    /\ searchTimeout' = [query |-> trim(text)]
    /\ UNCHANGED << selectedScout, results, scoutEvents, totalDays, clearBtn >>
    /\ uiUnchanged

\* 300 ms later the timer runs handleSearch on the text it was set for; a
\* timer that has fired is pending no more.
SearchTimeoutFires ==
    /\ searchTimeout # Null
    /\ \E q \in {searchTimeout.query} : handleSearch(q)
    /\ searchTimeout' = Null
    /\ uiUnchanged

\* The Enter key in the search box (part_001:175-186)
EnterKey ==
    /\ searchListener
    /\ \E q \in {trim(query)} :
       \E suggestions \in {searchScouts(q, allScouts)} :
          IF q # "" /\ Len(suggestions) > 0
          THEN selectScout(suggestions[1].fullName)
          ELSE UNCHANGED << selectedScout, query, results, scoutEvents, totalDays >>
    /\ UNCHANGED << searchTimeout, clearBtn >>
    /\ uiUnchanged

\* A click on the i-th suggestion shown (ui.js:78-87)
SuggestionClick(i) ==
    /\ i \in 1..Len(results)
    /\ selectScout(results[i].fullName)
    /\ UNCHANGED << searchTimeout, clearBtn >>
    /\ uiUnchanged

\* clearSearch() (part_001:250-260), run by a click on the clear button
\* while it is displayed; the pending debounce timer is not cleared.
ClearSearch ==
    /\ clearBtn
    /\ query' = ""
    /\ clearBtn' = FALSE
    /\ results' = <<>>
    /\ scoutEvents' = Null
    /\ totalDays' = None
    /\ selectedScout' = None
    /\ UNCHANGED searchTimeout
    /\ uiUnchanged

InitUI ==
    /\ futureEvents = <<>>
    /\ pastEvents = <<>>
    /\ allScouts = <<>>
    /\ selectedScout = None
    /\ autoRefreshInterval = None
    /\ searchListener = FALSE
    /\ searchTimeout = Null
    /\ clearBtn = FALSE
    /\ loads = {}
    /\ started = 0
    /\ sheet \in SheetNames
    /\ now = ClockStart
    /\ tz = 0
    /\ lenientDates = FALSE
    /\ lastLoad = NoLoad
    /\ query = ""
    /\ results = <<>>
    /\ SimIdle /\ ConvertIdle /\ IngestIdle /\ HistoryIdle
    /\ pc = "app"

NextUI ==
    \/ Authenticate
    \/ RefreshTick
    \/ \E l \in loads : LoadResolves(l)
    \/ \E l \in loads : LoadRejects(l)
    \/ SheetChanges
    \/ \E text \in TypedTexts : InputEvent(text)
    \/ SearchTimeoutFires
    \/ EnterKey
    \/ \E i \in 1..MaxSuggestions : SuggestionClick(i)
    \/ ClearSearch

SpecUI == InitUI /\ [][NextUI]_vars


\* C17: in every state in which handleSearch, the Enter-key handler or
\* selectScout can run (the search listeners are installed, a debounce timer
\* is pending or suggestions are on screen), some load has completed and
\* futureEvents, pastEvents and allScouts are all derived from the load that
\* completed last: the two lists hold each of its events exactly once and
\* nothing else, and allScouts is the scouts of those two lists.
C17_HandlersSeeOneCompletedLoad ==
    (searchListener \/ searchTimeout # Null \/ results # <<>>) =>
        /\ lastLoad.done
        /\ \A i \in DOMAIN lastLoad.allEvents :
              Occurrences(futureEvents, lastLoad.allEvents[i])
                  + Occurrences(pastEvents, lastLoad.allEvents[i]) = 1
        /\ Len(futureEvents) + Len(pastEvents) = Len(lastLoad.allEvents)
        /\ OnePerNameInFirstSeenOrder(allScouts, WalkedNames(FALSE))

\* A scout is selected and a debounce timer is pending while a refresh that
\* fetched other sheet content than the corpus on screen is still running.
C17_Witness ==
    /\ searchTimeout # Null
    /\ selectedScout # None
    /\ allScouts # <<>>
    /\ \E l \in loads : l.kind = "tick" /\ ConvertedEvents[l.data] # lastLoad.allEvents


-----------------------------------------------------------------------------
(* Overlapping loads *)

\* C21: a response of an earlier-started load never overwrites the result of
\* a later-started one: when the load that resolves was started before the
\* load whose result is held, futureEvents, pastEvents and allScouts stay as
\* they are, so that the corpus held once both have completed is the one of
\* the load started last.
C21_LastStartedLoadWins ==
    [][ \A l \in loads :
           (lastLoad'.id = l.id /\ l.id < lastLoad.id) =>
               /\ futureEvents' = futureEvents
               /\ pastEvents' = pastEvents
               /\ allScouts' = allScouts ]_vars


\* C23: when the load of an auto-refresh tick fails, futureEvents,
\* pastEvents, allScouts and selectedScout are left exactly as they were and
\* the refresh timer is left as it was, so that a later tick is attempted.
C23_FailedTickLeavesState ==
    [][ \A l \in loads :
           (l.kind = "tick" /\ loads' = loads \ {l} /\ lastLoad' = lastLoad) =>
               /\ futureEvents' = futureEvents
               /\ pastEvents' = pastEvents
               /\ allScouts' = allScouts
               /\ selectedScout' = selectedScout
               /\ autoRefreshInterval' = autoRefreshInterval ]_vars

\* A scout is selected, the corpus of the first load is held with the timer
\* running, and the one tick that was started has ended without any second
\* load resolving.
C23_Witness ==
    /\ started = 2
    /\ loads = {}
    /\ lastLoad.resolved = 1
    /\ lastLoad.id = 1
    /\ futureEvents # <<>>
    /\ allScouts # <<>>
    /\ selectedScout # None
    /\ autoRefreshInterval # None


\* The search box as clearSearch leaves it: the input empty, the clear button
\* hidden, no scout selected, no suggestions and no scout results shown.
Cleared ==
    /\ query = ""
    /\ ~clearBtn
    /\ selectedScout = None
    /\ results = <<>>
    /\ scoutEvents = Null

\* A step that is an input event of the user: a debounce timer is pending
\* after it and the timer or the text of the input is new.  (From a cleared
\* search box the Enter key and the clear button change nothing and no
\* suggestion can be clicked.)
IsInputEvent ==
    /\ searchTimeout' # Null
    /\ << query, searchTimeout >>' # << query, searchTimeout >>

\* C22: after clearSearch, as long as the user enters nothing, selectedScout
\* stays null and the suggestion list and the scout results stay hidden, also
\* when a debounce timer was still pending at the moment clearSearch ran.
C22_ClearedUntilNextUserEvent ==
    [][ (Cleared /\ ~IsInputEvent) =>
            /\ selectedScout' = None
            /\ results' = <<>>
            /\ scoutEvents' = Null ]_vars


\* C24: whenever no handler is running, after any sequence of loads,
\* searches, selections and clears, allScouts is what extractUniqueScouts
\* returns for the current futureEvents and pastEvents, and no event is in both
\* futureEvents and pastEvents.
C24_ScoutsOfTheListsAndDisjointLists ==
    /\ allScouts = extractUniqueScouts(futureEvents, pastEvents)
    /\ \A i \in DOMAIN futureEvents : Occurrences(pastEvents, futureEvents[i]) = 0

\* Two loads have resolved, both lists and allScouts are filled, a scout has
\* been searched and the search cleared with a debounce timer still pending.
C24_Witness ==
    /\ lastLoad.resolved = 2
    /\ futureEvents # <<>>
    /\ pastEvents # <<>>
    /\ allScouts # <<>>
    /\ Cleared
    /\ searchTimeout # Null
    /\ searchTimeout.query # ""

====
